---- MODULE Spec2Model ----
(***************************************************************************)
(* gridlify: GapValidator (src/lib/modules/gap-validator.js),              *)
(* GridGenerator (src/lib/modules/grid-generator.js) and the Measurements  *)
(* enum (src/lib/enum/css-measurments.js).                                 *)
(*                                                                         *)
(* JavaScript values are tagged records; JavaScript strings are TLA+       *)
(* strings (Len, SubSeq and \o act on them character by character).        *)
(* RowColumnValidator and GridValidator are imported by the sources but    *)
(* their files are not part of src/: they are modelled from spec.md        *)
(* (sections 4.2 and 4.4) and marked so in MODEL_MAP.json.                 *)
(***************************************************************************)
EXTENDS Integers, Sequences, FiniteSets, TLC

VARIABLES
  pc,        \* "idle": the caller is between calls; "returned": a call has completed
  call,      \* the call that completed last: [op, arg, id]
  outcome,   \* how it completed: a return value or a thrown error
  argAfter,  \* the caller's argument object as the call left it
  writes,    \* the style assignments the call performed, in order
  dom,       \* the document: the style map of its element
  ndom,      \* DOM-mutating calls made so far
  prev       \* the first submission of the grid that is being re-submitted

vars == <<pc, call, outcome, argAfter, writes, dom, ndom, prev>>

----------------------------------------------------------------------------
(* Bounds of the model *)

MaxGapLen == 4

MaxTracks == 2

MaxDomCalls == 2

----------------------------------------------------------------------------
(* JavaScript values *)

Undefined == [t |-> "undefined"]

Null == [t |-> "null"]

JStr(s) == [t |-> "string", s |-> s]

JArr(items) == [t |-> "array", items |-> items]

\* A number: NaN, an infinity, or the finite value (-1)^neg * 0.d1...dk * 10^n
\* with d1...dk = digits, no leading and no trailing zero; zero has no digits.
JNum(kind, neg, digits, n) ==
  [t |-> "number", kind |-> kind, neg |-> neg, digits |-> digits, n |-> n]

NaN == JNum("nan", FALSE, "", 0)

Infinity == JNum("inf", FALSE, "", 0)

Fin(neg, digits, n) == JNum("finite", neg, digits, n)

Zero == Fin(FALSE, "", 0)

typeof(v) ==
  CASE v.t = "null" -> "object"
    [] v.t = "array" -> "object"
    [] OTHER -> v.t

\* ToBoolean: what `if (v)`, `!v` and `a && b` test
Truthy(v) ==
  CASE v.t = "undefined" -> FALSE
    [] v.t = "null" -> FALSE
    [] v.t = "string" -> v.s # ""
    [] v.t = "number" -> ~(v.kind = "nan" \/ (v.kind = "finite" /\ v.digits = ""))
    [] OTHER -> TRUE

Return(v) == [type |-> "return", value |-> v]

Throw(name, message) ==
  [type |-> "throw", value |-> [t |-> "error", name |-> name, message |-> message]]

Threw(o) == o.type = "throw"

----------------------------------------------------------------------------
(* Strings *)

CharAt(s, i) == SubSeq(s, i, i)

endsWith(s, suffix) ==
  /\ Len(s) >= Len(suffix)
  /\ SubSeq(s, Len(s) - Len(suffix) + 1, Len(s)) = suffix

Digits == {"0", "1", "2", "3", "4", "5", "6", "7", "8", "9"}

AllIn(s, chars) == \A i \in 1..Len(s) : CharAt(s, i) \in chars

RECURSIVE Zeros(_)
Zeros(k) == IF k <= 0 THEN "" ELSE "0" \o Zeros(k - 1)

RECURSIVE StripLeadingZeros(_)
StripLeadingZeros(s) ==
  IF s # "" /\ CharAt(s, 1) = "0" THEN StripLeadingZeros(SubSeq(s, 2, Len(s))) ELSE s

RECURSIVE StripTrailingZeros(_)
StripTrailingZeros(s) ==
  IF s # "" /\ CharAt(s, Len(s)) = "0"
  THEN StripTrailingZeros(SubSeq(s, 1, Len(s) - 1)) ELSE s

\* The longest prefix of s made of decimal digits
RECURSIVE DigitPrefix(_)
DigitPrefix(s) ==
  IF s # "" /\ CharAt(s, 1) \in Digits
  THEN CharAt(s, 1) \o DigitPrefix(SubSeq(s, 2, Len(s))) ELSE ""

----------------------------------------------------------------------------
(* src/lib/enum/css-measurments.js *)

Measurements == {"px", "fr", "%"}

----------------------------------------------------------------------------
(* RowColumnValidator (spec.md 4.2) *)

RowColumnValidator_isString(value) == typeof(value) = "string"

RowColumnValidator_hasCorrectSuffix(token) ==
  \E m \in Measurements : endsWith(token, m)

\* Everything before the recognized suffix (the whole token when it has none)
NumericPrefix(token) ==
  IF \E m \in Measurements : endsWith(token, m)
  THEN LET m == CHOOSE u \in Measurements : endsWith(token, u)
       IN  SubSeq(token, 1, Len(token) - Len(m))
  ELSE token

\* An optionally signed decimal numeral: digits with at most one point
ParsesAsNumber(s) ==
  LET body == IF s # "" /\ CharAt(s, 1) = "-" THEN SubSeq(s, 2, Len(s)) ELSE s
      int  == DigitPrefix(body)
      rest == SubSeq(body, Len(int) + 1, Len(body))
      frac == IF rest # "" /\ CharAt(rest, 1) = "." THEN SubSeq(rest, 2, Len(rest)) ELSE ""
  IN  /\ rest = "" \/ CharAt(rest, 1) = "."
      /\ AllIn(frac, Digits)
      /\ int \o frac # ""

IsNegativeNumeral(s) ==
  /\ s # "" /\ CharAt(s, 1) = "-"
  /\ \E i \in 2..Len(s) : CharAt(s, i) \in Digits \ {"0"}

RowColumnValidator_isPositiveNumber(token) ==
  LET p == NumericPrefix(token) IN ParsesAsNumber(p) /\ ~IsNegativeNumeral(p)

RowColumnValidator_validate(values) ==
  LET tokens == IF values.t = "array" THEN values.items ELSE <<values>>
      range  == 1..Len(tokens)
  IN  IF values.t # "array" /\ ~RowColumnValidator_isString(values)
        THEN Throw("TypeError", "track values must be strings")
      ELSE IF \E i \in range : ~RowColumnValidator_isString(tokens[i])
        THEN Throw("TypeError", "track values must be strings")
      ELSE IF \E i \in range : ~RowColumnValidator_hasCorrectSuffix(tokens[i].s)
        THEN Throw("FormatError", "track values must end with a valid CSS measurement")
      ELSE IF \E i \in range : ~RowColumnValidator_isPositiveNumber(tokens[i].s)
        THEN Throw("RangeError", "track values must be positive numbers")
      ELSE Return(Undefined)

----------------------------------------------------------------------------
(* src/lib/modules/gap-validator.js *)

GapValidator_validate_rangeFirst(gap) ==
  IF typeof(gap) # "string"
    THEN Throw("TypeError", "Gap value must be a string")
  ELSE IF ~RowColumnValidator_isPositiveNumber(gap.s)
    THEN Throw("TypeError", "Gap values must be positvie numbers followed by a valid CSS measurement")
  ELSE IF ~RowColumnValidator_hasCorrectSuffix(gap.s)
    THEN Throw("TypeError", "Gap value must end with a valid CSS measurement")
  ELSE Return(Undefined)

GapValidator_validate(gap) ==
  IF typeof(gap) # "string"
    THEN Throw("TypeError", "Gap value must be a string")
  ELSE IF ~RowColumnValidator_hasCorrectSuffix(gap.s)
    THEN Throw("TypeError", "Gap value must end with a valid CSS measurement")
  ELSE IF ~RowColumnValidator_isPositiveNumber(gap.s)
    THEN Throw("TypeError", "Gap values must be positvie numbers followed by a valid CSS measurement")
  ELSE Return(Undefined)

----------------------------------------------------------------------------
(* Number to string, string to integer (ECMAScript Number::toString, parseInt) *)

\* Number::toString(x), radix 10
NumberToString(x) ==
  LET k == Len(x.digits)
      n == x.n
      e == n - 1
      sign == IF x.neg THEN "-" ELSE ""
  IN  CASE x.kind = "nan" -> "NaN"
        [] x.kind = "inf" -> sign \o "Infinity"
        [] x.digits = "" -> "0"
        [] k <= n /\ n <= 21 -> sign \o x.digits \o Zeros(n - k)
        [] 0 < n /\ n < k /\ n <= 21 ->
             sign \o SubSeq(x.digits, 1, n) \o "." \o SubSeq(x.digits, n + 1, k)
        [] -6 < n /\ n <= 0 -> sign \o "0." \o Zeros(-n) \o x.digits
        [] OTHER ->
             sign \o CharAt(x.digits, 1)
                  \o (IF k = 1 THEN "" ELSE "." \o SubSeq(x.digits, 2, k))
                  \o "e" \o (IF e >= 0 THEN "+" ELSE "-")
                  \o ToString(IF e >= 0 THEN e ELSE -e)

RECURSIVE JSToString(_)
RECURSIVE join(_, _)

\* ToString(v): what a template literal `${v}` and a DOM string argument apply
JSToString(v) ==
  CASE v.t = "string" -> v.s
    [] v.t = "number" -> NumberToString(v)
    [] v.t = "undefined" -> "undefined"
    [] v.t = "null" -> "null"
    [] v.t = "array" -> join(v.items, ",")
    [] OTHER -> "[object Object]"

\* Array.prototype.join: undefined and null elements give the empty string
join(items, sep) ==
  LET str(e) == IF e.t \in {"undefined", "null"} THEN "" ELSE JSToString(e)
  IN  IF items = <<>> THEN ""
      ELSE IF Len(items) = 1 THEN str(Head(items))
      ELSE str(Head(items)) \o sep \o join(Tail(items), sep)

\* parseInt(v): the integer that the longest signed digit prefix of ToString(v)
\* denotes, NaN when that prefix is empty
parseInt(v) ==
  LET s      == JSToString(v)
      neg    == s # "" /\ CharAt(s, 1) = "-"
      signed == s # "" /\ CharAt(s, 1) \in {"-", "+"}
      body   == IF signed THEN SubSeq(s, 2, Len(s)) ELSE s
      ds     == DigitPrefix(body)
      int    == StripLeadingZeros(ds)
  IN  IF ds = "" THEN NaN
      ELSE IF int = "" THEN Fin(neg, "", 0)
      ELSE Fin(neg, StripTrailingZeros(int), Len(int))

----------------------------------------------------------------------------
(* GridValidator (spec.md 4.4) *)

GridValidator_isString(value) == typeof(value) = "string"

GridValidator_validateAllParams(params) ==
  LET rows      == RowColumnValidator_validate(params.rows)
      columns   == RowColumnValidator_validate(params.columns)
      rowGap    == GapValidator_validate(params.rowGap)
      columnGap == GapValidator_validate(params.columnGap)
  IN  IF Threw(rows) THEN rows
      ELSE IF Threw(columns) THEN columns
      ELSE IF Threw(rowGap) THEN rowGap
      ELSE columnGap

PositionFields == {"startRow", "endRow", "startColumn", "endColumn"}

GridValidator_validatePositions(positions) ==
  IF \E f \in PositionFields :
       positions[f].t # "undefined" /\ typeof(positions[f]) # "number"
  THEN Throw("TypeError", "position values must be numbers")
  ELSE Return(positions)

----------------------------------------------------------------------------
(* src/lib/modules/grid-generator.js: the objects the caller passes *)

Grid(rows, columns, rowGap, columnGap) ==
  [t |-> "object", rows |-> rows, columns |-> columns,
   rowGap |-> rowGap, columnGap |-> columnGap]

Positions(startRow, endRow, startColumn, endColumn) ==
  [t |-> "object", startRow |-> startRow, endRow |-> endRow,
   startColumn |-> startColumn, endColumn |-> endColumn]

\* A parameter default applies when the property is undefined
Default(v, d) == IF v.t = "undefined" THEN d ELSE v

DefaultTracks == JArr(<<JStr("100%")>>)

DefaultGap == JStr("0px")

GridParams(grid) ==
  Grid(Default(grid.rows, DefaultTracks), Default(grid.columns, DefaultTracks),
       Default(grid.rowGap, DefaultGap), Default(grid.columnGap, DefaultGap))

\* `${tracks.join(' ')}`: a value without a join method cannot be called
JoinTracks(tracks) ==
  IF tracks.t = "array" THEN Return(JStr(join(tracks.items, " ")))
  ELSE Throw("TypeError", "join is not a function")

GridTemplate(rows, columns, rowGap, columnGap) ==
  "{ \n  display: grid;\n  grid-template-rows: " \o rows
    \o ";\n  grid-template-columns: " \o columns
    \o ";\n  grid-row-gap: " \o rowGap
    \o ";\n  grid-column-gap: " \o columnGap \o ";\n}"

(* getGridCss: the outcome, and the caller's grid object as the call leaves it *)

getGridCss_commaJoin(grid) ==
  LET p == GridParams(grid)
      v == GridValidator_validateAllParams(p)
  IN  [arg |-> grid,
       outcome |->
         IF Threw(v) THEN v
         ELSE IF p.rows.t # "array" THEN JoinTracks(p.rows)
         ELSE IF p.columns.t # "array" THEN JoinTracks(p.columns)
         ELSE Return(JStr(GridTemplate(join(p.rows.items, ","), join(p.columns.items, ","),
                                       JSToString(p.rowGap), JSToString(p.columnGap))))]

getGridCss_gapsUnchecked(grid) ==
  LET p == GridParams(grid)
      r == RowColumnValidator_validate(p.rows)
      c == RowColumnValidator_validate(p.columns)
      rows == JoinTracks(p.rows)
      columns == JoinTracks(p.columns)
  IN  [arg |-> grid,
       outcome |->
         IF Threw(r) THEN r
         ELSE IF Threw(c) THEN c
         ELSE IF Threw(rows) THEN rows
         ELSE IF Threw(columns) THEN columns
         ELSE Return(JStr(GridTemplate(rows.value.s, columns.value.s,
                                       JSToString(p.rowGap), JSToString(p.columnGap))))]

getGridCss_defaultsStored(grid) ==
  LET p == GridParams(grid)
      v == GridValidator_validateAllParams(p)
      rows == JoinTracks(p.rows)
      columns == JoinTracks(p.columns)
  IN  [arg |-> p,
       outcome |->
         IF Threw(v) THEN v
         ELSE IF Threw(rows) THEN rows
         ELSE IF Threw(columns) THEN columns
         ELSE Return(JStr(GridTemplate(rows.value.s, columns.value.s,
                                       JSToString(p.rowGap), JSToString(p.columnGap))))]

getGridCss(grid) ==
  LET p == GridParams(grid)
      v == GridValidator_validateAllParams(p)
      rows == JoinTracks(p.rows)
      columns == JoinTracks(p.columns)
  IN  [arg |-> grid,
       outcome |->
         IF Threw(v) THEN v
         ELSE IF Threw(rows) THEN rows
         ELSE IF Threw(columns) THEN columns
         ELSE Return(JStr(GridTemplate(rows.value.s, columns.value.s,
                                       JSToString(p.rowGap), JSToString(p.columnGap))))]

(* getPositionCss *)

PositionTemplate(r1, c1, r2, c2) ==
  "{ grid-area: " \o r1 \o " / " \o c1 \o " / " \o r2 \o " / " \o c2 \o "; }"

\* `${!end ? parseInt(start) : parseInt(end)}`
EndOrStart(start, end) ==
  IF ~Truthy(end) THEN JSToString(parseInt(start)) ELSE JSToString(parseInt(end))

getPositionCss(positions) ==
  LET v == GridValidator_validatePositions(positions)
      p == v.value
  IN  IF Threw(v) THEN v
      ELSE IF Truthy(p.startRow) /\ Truthy(p.startColumn)
        THEN Return(JStr(PositionTemplate(JSToString(parseInt(p.startRow)),
                                          JSToString(parseInt(p.startColumn)),
                                          EndOrStart(p.startRow, p.endRow),
                                          EndOrStart(p.startColumn, p.endColumn))))
      ELSE Return(JStr(""))

----------------------------------------------------------------------------
(* The document: one element, <div id="a"> *)

Letters == {"a", "b", "c", "d", "e", "f", "g", "h", "i", "j", "k", "l", "m",
            "n", "o", "p", "q", "r", "s", "t", "u", "v", "w", "x", "y", "z"}

IsIdent(s) == s # "" /\ CharAt(s, 1) \in Letters /\ AllIn(s, Letters \cup Digits)

\* document.querySelector(selector): "element", "null" (nothing matches) or
\* "SyntaxError" (ToString(selector) is not a selector)
querySelector(selector) ==
  LET s == JSToString(selector)
  IN  IF IsIdent(s) THEN (IF s = "div" THEN "element" ELSE "null")
      ELSE IF s # "" /\ CharAt(s, 1) = "#" /\ IsIdent(SubSeq(s, 2, Len(s)))
        THEN (IF s = "#a" THEN "element" ELSE "null")
      ELSE "SyntaxError"

StyleProperties ==
  {"display", "gridTemplateRows", "gridTemplateColumns", "gridRowGap",
   "gridColumnGap", "gridRow", "gridColumn"}

NoStyle == [p \in StyleProperties |-> ""]

Assign(property, value) == [property |-> property, value |-> value]

\* The statements `document.querySelector(id).style.<property> = <value>` in
\* order: the element is looked up, then the value is computed, then the
\* assignment is made; the first statement that throws ends the call.
RECURSIVE RunAssignments(_, _, _)
RunAssignments(id, statements, done) ==
  IF statements = <<>> THEN [outcome |-> Return(Undefined), writes |-> done]
  ELSE LET q == querySelector(id)
           st == Head(statements)
       IN  IF q = "SyntaxError"
             THEN [outcome |-> Throw("SyntaxError", "not a valid selector"), writes |-> done]
           ELSE IF q = "null"
             THEN [outcome |-> Throw("TypeError", "Cannot read properties of null"),
                   writes |-> done]
           ELSE IF Threw(st.value) THEN [outcome |-> st.value, writes |-> done]
           ELSE RunAssignments(id, Tail(statements),
                               Append(done, Assign(st.property, st.value.value.s)))

RECURSIVE ApplyWrites(_, _)
ApplyWrites(style, ws) ==
  IF ws = <<>> THEN style
  ELSE ApplyWrites([style EXCEPT ![Head(ws).property] = Head(ws).value], Tail(ws))

----------------------------------------------------------------------------
(* src/lib/modules/grid-generator.js: the DOM-mutating operations *)

GridStatements(p) ==
  << Assign("display", Return(JStr("grid"))),
     Assign("gridTemplateRows", JoinTracks(p.rows)),
     Assign("gridTemplateColumns", JoinTracks(p.columns)),
     Assign("gridRowGap", Return(JStr(JSToString(p.rowGap)))),
     Assign("gridColumnGap", Return(JStr(JSToString(p.columnGap)))) >>

setGrid_displayFirst(grid, htmlIdentifier) ==
  LET p == GridParams(grid)
      v == GridValidator_validateAllParams(p)
      d == RunAssignments(htmlIdentifier, SubSeq(GridStatements(p), 1, 1), <<>>)
  IN  IF ~RowColumnValidator_isString(htmlIdentifier)
        THEN [outcome |-> Throw("Error", "HTML element identifier must be a string"),
              writes |-> <<>>]
      ELSE IF ~Truthy(htmlIdentifier) THEN [outcome |-> v, writes |-> <<>>]
      ELSE IF Threw(d.outcome) THEN d
      ELSE IF Threw(v) THEN [outcome |-> v, writes |-> d.writes]
      ELSE RunAssignments(htmlIdentifier, Tail(GridStatements(p)), d.writes)

setGrid(grid, htmlIdentifier) ==
  LET p == GridParams(grid)
      v == GridValidator_validateAllParams(p)
  IN  IF Threw(v) THEN [outcome |-> v, writes |-> <<>>]
      ELSE IF ~RowColumnValidator_isString(htmlIdentifier)
        THEN [outcome |-> Throw("Error", "HTML element identifier must be a string"),
              writes |-> <<>>]
      ELSE IF Truthy(htmlIdentifier)
        THEN RunAssignments(htmlIdentifier, GridStatements(p), <<>>)
      ELSE [outcome |-> Return(Undefined), writes |-> <<>>]

PositionStatements(p) ==
  << Assign("gridRow",
            Return(JStr(JSToString(parseInt(p.startRow)) \o " / "
                        \o EndOrStart(p.startRow, p.endRow)))),
     Assign("gridColumn",
            Return(JStr(JSToString(parseInt(p.startColumn)) \o " / "
                        \o EndOrStart(p.startColumn, p.endColumn)))) >>

setPosition_eitherStart(positions, htmlIdentifier) ==
  LET v == GridValidator_validatePositions(positions)
      p == v.value
  IN  IF Threw(v) THEN [outcome |-> v, writes |-> <<>>]
      ELSE IF Truthy(p.startRow) \/ Truthy(p.startColumn)
        THEN RunAssignments(htmlIdentifier, PositionStatements(p), <<>>)
      ELSE [outcome |-> Return(Undefined), writes |-> <<>>]

setPosition(positions, htmlIdentifier) ==
  LET v == GridValidator_validatePositions(positions)
      p == v.value
  IN  IF Threw(v) THEN [outcome |-> v, writes |-> <<>>]
      ELSE IF Truthy(p.startRow) /\ Truthy(p.startColumn)
        THEN RunAssignments(htmlIdentifier, PositionStatements(p), <<>>)
      ELSE [outcome |-> Return(Undefined), writes |-> <<>>]

\* setRows and setColumns
setTracks(property, tracks, htmlIdentifier) ==
  LET v == RowColumnValidator_validate(tracks)
  IN  IF Threw(v) THEN [outcome |-> v, writes |-> <<>>]
      ELSE IF GridValidator_isString(htmlIdentifier)
        THEN RunAssignments(htmlIdentifier, <<Assign(property, JoinTracks(tracks))>>, <<>>)
      ELSE [outcome |-> Return(Undefined), writes |-> <<>>]

setRows(rows, htmlIdentifier) == setTracks("gridTemplateRows", rows, htmlIdentifier)

setColumns(columns, htmlIdentifier) ==
  setTracks("gridTemplateColumns", columns, htmlIdentifier)

\* setRowGap and setColumnGap
setGap(property, gap, htmlIdentifier) ==
  LET v == GapValidator_validate(gap)
  IN  IF Threw(v) THEN [outcome |-> v, writes |-> <<>>]
      ELSE IF GridValidator_isString(htmlIdentifier)
        THEN RunAssignments(htmlIdentifier,
                            <<Assign(property, Return(JStr(JSToString(gap))))>>, <<>>)
      ELSE [outcome |-> Return(Undefined), writes |-> <<>>]

setRowGap(gap, htmlIdentifier) == setGap("gridRowGap", gap, htmlIdentifier)

setColumnGap(gap, htmlIdentifier) == setGap("gridColumnGap", gap, htmlIdentifier)

----------------------------------------------------------------------------
(* The inputs the callers draw from *)

RECURSIVE StringsOver(_, _)
StringsOver(alphabet, n) ==
  IF n = 0 THEN {""}
  ELSE LET shorter == StringsOver(alphabet, n - 1)
       IN  shorter \cup {s \o c : s \in shorter, c \in alphabet}

RECURSIVE ListsOver(_, _)
ListsOver(items, n) ==
  IF n = 0 THEN {<<>>}
  ELSE LET shorter == ListsOver(items, n - 1)
       IN  shorter \cup {Append(l, i) : l \in shorter, i \in items}

Five == Fin(FALSE, "5", 1)

One == Fin(FALSE, "1", 1)

GapAlphabet == {"-", "0", "5", ".", "p", "x", "f", "r", "%"}

GapInputs ==
  {JStr(s) : s \in StringsOver(GapAlphabet, MaxGapLen)}
    \cup {Undefined, Null, Five, JArr(<<JStr("5px")>>)}

TrackTokens == {JStr("1fr"), JStr("50%"), JStr("-1px"), JStr("5")}

TrackInputs ==
  {JArr(l) : l \in ListsOver(TrackTokens, MaxTracks)}
    \cup {Undefined, Five, JStr("1fr"), JArr(<<Five>>), JArr(<<JStr("1fr"), Five>>)}

GridGapInputs == {Undefined, JStr("5px"), JStr("-5px"), JStr("5"), Five}

GridInputs ==
  {Grid(r, c, g1, g2) : r \in TrackInputs, c \in TrackInputs,
                        g1 \in GridGapInputs, g2 \in GridGapInputs}

\* undefined, a non-number, NaN, Infinity, 0, 1, 2, 1.9, -1.9, 0.5, 5e-7, 1e21
PositionValues ==
  {Undefined, JStr("1"), NaN, Infinity, Zero, One, Fin(FALSE, "2", 1),
   Fin(FALSE, "19", 1), Fin(TRUE, "19", 1), Fin(FALSE, "5", 0),
   Fin(FALSE, "5", -6), Fin(FALSE, "1", 22)}

PositionInputs ==
  {Positions(sr, er, sc, ec) : sr \in PositionValues, er \in PositionValues,
                               sc \in PositionValues, ec \in PositionValues}

\* The smaller sets of the specification that runs every operation
SomeGaps == {JStr("5px"), JStr("-5px"), JStr("5"), Five}

SomeTracks ==
  {JArr(<<JStr("1fr"), JStr("50%")>>), JArr(<<JStr("-1px")>>), JStr("1fr"), Five}

SomeGrids ==
  {Grid(r, c, g1, g2) :
     r \in {Undefined, JArr(<<JStr("1fr"), JStr("50%")>>), JArr(<<JStr("-1px")>>), JStr("1fr")},
     c \in {Undefined, JArr(<<JStr("2fr")>>), JArr(<<JStr("5")>>)},
     g1 \in {Undefined, JStr("5px"), JStr("-5px")},
     g2 \in {Undefined, JStr("1%"), Five}}

SomePositions ==
  {Positions(sr, er, sc, ec) :
     sr \in {Undefined, Zero, One, JStr("1")},
     er \in {Undefined, Zero, Fin(FALSE, "29", 1), JStr("1")},
     sc \in {Undefined, Zero, Fin(FALSE, "2", 1), JStr("1")},
     ec \in {Undefined, Zero, Fin(FALSE, "39", 1), JStr("1")}}

\* a selector that matches, one that matches nothing, the empty string, a
\* number and undefined
Identifiers == {JStr("#a"), JStr("#none"), JStr(""), Five, Undefined}

----------------------------------------------------------------------------
(* The state machine: a caller invokes one operation at a time *)

NoCall == [op |-> "none", arg |-> Undefined, id |-> Undefined]

NoOutcome == [type |-> "none", value |-> Undefined]

NoPrev == [set |-> FALSE, arg |-> Undefined, outcome |-> NoOutcome]

Init ==
  /\ pc = "idle"
  /\ call = NoCall
  /\ outcome = NoOutcome
  /\ argAfter = Undefined
  /\ writes = <<>>
  /\ dom = NoStyle
  /\ ndom = 0
  /\ prev = NoPrev

\* GapValidator.validate(gap)
Validate(gaps) ==
  /\ pc = "idle"
  /\ \E gap \in gaps :
       /\ call' = [op |-> "validate", arg |-> gap, id |-> Undefined]
       /\ outcome' = GapValidator_validate(gap)
       /\ argAfter' = gap
  /\ pc' = "returned"
  /\ UNCHANGED <<writes, dom, ndom, prev>>

\* getGridCss(grid)
GetGridCss(grids) ==
  /\ pc = "idle"
  /\ \E grid \in grids :
       LET r == getGridCss(grid)
       IN  /\ call' = [op |-> "getGridCss", arg |-> grid, id |-> Undefined]
           /\ outcome' = r.outcome
           /\ argAfter' = r.arg
  /\ pc' = "returned"
  /\ UNCHANGED <<writes, dom, ndom, prev>>

\* The caller submits the grid object of the successful call once more
Resubmit ==
  /\ pc = "returned"
  /\ call.op = "getGridCss"
  /\ ~Threw(outcome)
  /\ LET r == getGridCss(argAfter)
     IN  /\ call' = [call EXCEPT !.arg = argAfter]
         /\ outcome' = r.outcome
         /\ argAfter' = r.arg
  /\ prev' = IF prev.set THEN prev
             ELSE [set |-> TRUE, arg |-> call.arg, outcome |-> outcome]
  /\ UNCHANGED <<pc, writes, dom, ndom>>

\* getPositionCss(positions)
GetPositionCss(placements) ==
  /\ pc = "idle"
  /\ \E positions \in placements :
       /\ call' = [op |-> "getPositionCss", arg |-> positions, id |-> Undefined]
       /\ outcome' = getPositionCss(positions)
       /\ argAfter' = positions
  /\ pc' = "returned"
  /\ UNCHANGED <<writes, dom, ndom, prev>>

\* setGrid(grid, htmlIdentifier)
SetGrid(grids, ids) ==
  /\ pc = "idle"
  /\ ndom < MaxDomCalls
  /\ \E grid \in grids, id \in ids :
       LET r == setGrid(grid, id)
       IN  /\ call' = [op |-> "setGrid", arg |-> grid, id |-> id]
           /\ outcome' = r.outcome
           /\ argAfter' = grid
           /\ writes' = r.writes
           /\ dom' = ApplyWrites(dom, r.writes)
  /\ pc' = "returned"
  /\ ndom' = ndom + 1
  /\ UNCHANGED prev

\* setPosition(positions, htmlIdentifier)
SetPosition(placements, ids) ==
  /\ pc = "idle"
  /\ ndom < MaxDomCalls
  /\ \E positions \in placements, id \in ids :
       LET r == setPosition(positions, id)
       IN  /\ call' = [op |-> "setPosition", arg |-> positions, id |-> id]
           /\ outcome' = r.outcome
           /\ argAfter' = positions
           /\ writes' = r.writes
           /\ dom' = ApplyWrites(dom, r.writes)
  /\ pc' = "returned"
  /\ ndom' = ndom + 1
  /\ UNCHANGED prev

\* setRows(rows, htmlIdentifier)
SetRows(tracks, ids) ==
  /\ pc = "idle"
  /\ ndom < MaxDomCalls
  /\ \E rows \in tracks, id \in ids :
       LET r == setRows(rows, id)
       IN  /\ call' = [op |-> "setRows", arg |-> rows, id |-> id]
           /\ outcome' = r.outcome
           /\ argAfter' = rows
           /\ writes' = r.writes
           /\ dom' = ApplyWrites(dom, r.writes)
  /\ pc' = "returned"
  /\ ndom' = ndom + 1
  /\ UNCHANGED prev

\* setColumns(columns, htmlIdentifier)
SetColumns(tracks, ids) ==
  /\ pc = "idle"
  /\ ndom < MaxDomCalls
  /\ \E columns \in tracks, id \in ids :
       LET r == setColumns(columns, id)
       IN  /\ call' = [op |-> "setColumns", arg |-> columns, id |-> id]
           /\ outcome' = r.outcome
           /\ argAfter' = columns
           /\ writes' = r.writes
           /\ dom' = ApplyWrites(dom, r.writes)
  /\ pc' = "returned"
  /\ ndom' = ndom + 1
  /\ UNCHANGED prev

\* setRowGap(gap, htmlIdentifier)
SetRowGap(gaps, ids) ==
  /\ pc = "idle"
  /\ ndom < MaxDomCalls
  /\ \E gap \in gaps, id \in ids :
       LET r == setRowGap(gap, id)
       IN  /\ call' = [op |-> "setRowGap", arg |-> gap, id |-> id]
           /\ outcome' = r.outcome
           /\ argAfter' = gap
           /\ writes' = r.writes
           /\ dom' = ApplyWrites(dom, r.writes)
  /\ pc' = "returned"
  /\ ndom' = ndom + 1
  /\ UNCHANGED prev

\* setColumnGap(gap, htmlIdentifier)
SetColumnGap(gaps, ids) ==
  /\ pc = "idle"
  /\ ndom < MaxDomCalls
  /\ \E gap \in gaps, id \in ids :
       LET r == setColumnGap(gap, id)
       IN  /\ call' = [op |-> "setColumnGap", arg |-> gap, id |-> id]
           /\ outcome' = r.outcome
           /\ argAfter' = gap
           /\ writes' = r.writes
           /\ dom' = ApplyWrites(dom, r.writes)
  /\ pc' = "returned"
  /\ ndom' = ndom + 1
  /\ UNCHANGED prev

\* The caller takes the result
ReturnToCaller ==
  /\ pc = "returned"
  /\ pc' = "idle"
  /\ call' = NoCall
  /\ outcome' = NoOutcome
  /\ argAfter' = Undefined
  /\ writes' = <<>>
  /\ prev' = NoPrev
  /\ UNCHANGED <<dom, ndom>>

\* Every operation, on the smaller input sets
Next ==
  \/ Validate(SomeGaps)
  \/ GetGridCss(SomeGrids)
  \/ Resubmit
  \/ GetPositionCss(SomePositions)
  \/ SetGrid(SomeGrids, Identifiers)
  \/ SetPosition(SomePositions, Identifiers)
  \/ SetRows(SomeTracks, Identifiers)
  \/ SetColumns(SomeTracks, Identifiers)
  \/ SetRowGap(SomeGaps, Identifiers)
  \/ SetColumnGap(SomeGaps, Identifiers)
  \/ ReturnToCaller

Spec == Init /\ [][Next]_vars

\* GapValidator.validate on every string over GapAlphabet up to MaxGapLen
NextGap == Validate(GapInputs) \/ ReturnToCaller

SpecGap == Init /\ [][NextGap]_vars

\* getGridCss on every grid over TrackInputs and GridGapInputs
NextGrid == GetGridCss(GridInputs) \/ Resubmit \/ ReturnToCaller

SpecGrid == Init /\ [][NextGrid]_vars

\* getPositionCss on every placement over PositionValues
NextPosition == GetPositionCss(PositionInputs) \/ ReturnToCaller

SpecPosition == Init /\ [][NextPosition]_vars

----------------------------------------------------------------------------
(* Properties *)

Done(op) == pc = "returned" /\ call.op = op

ValidToken(v) ==
  /\ v.t = "string"
  /\ RowColumnValidator_hasCorrectSuffix(v.s)
  /\ RowColumnValidator_isPositiveNumber(v.s)

\* The rule a gap violates first: type, then format, then range
FirstViolatedRule(gap) ==
  IF gap.t # "string" THEN "type"
  ELSE IF ~RowColumnValidator_hasCorrectSuffix(gap.s) THEN "format"
  ELSE IF ~RowColumnValidator_isPositiveNumber(gap.s) THEN "range"
  ELSE "none"

ValidTrackList(v) ==
  v.t = "array" /\ \A i \in 1..Len(v.items) : ValidToken(v.items[i])

RECURSIVE SpaceJoined(_)
SpaceJoined(tokens) ==
  IF Len(tokens) = 0 THEN ""
  ELSE IF Len(tokens) = 1 THEN tokens[1].s
  ELSE SpaceJoined(SubSeq(tokens, 1, Len(tokens) - 1)) \o " " \o tokens[Len(tokens)].s

\* C2: for a grid whose fields (after defaulting) are all valid, getGridCss
\* returns exactly the grid block: the row and the column tokens in input
\* order joined by one space, the gaps verbatim, and each omitted field
\* replaced by its default (['100%'], ['100%'], '0px', '0px') on its own.
C2_GridBlock ==
  Done("getGridCss") =>
    LET g  == call.arg
        r  == IF g.rows = Undefined THEN JArr(<<JStr("100%")>>) ELSE g.rows
        c  == IF g.columns = Undefined THEN JArr(<<JStr("100%")>>) ELSE g.columns
        g1 == IF g.rowGap = Undefined THEN JStr("0px") ELSE g.rowGap
        g2 == IF g.columnGap = Undefined THEN JStr("0px") ELSE g.columnGap
    IN  (ValidTrackList(r) /\ ValidTrackList(c) /\ ValidToken(g1) /\ ValidToken(g2)) =>
          outcome = Return(JStr(
            "{ \n  display: grid;\n  grid-template-rows: " \o SpaceJoined(r.items)
              \o ";\n  grid-template-columns: " \o SpaceJoined(c.items)
              \o ";\n  grid-row-gap: " \o g1.s
              \o ";\n  grid-column-gap: " \o g2.s \o ";\n}"))

\* C2 witness: getGridCss has returned for a grid with two row tokens, a
\* given row gap and the columns and the column gap omitted.
C2_Witness ==
  /\ Done("getGridCss")
  /\ ValidTrackList(call.arg.rows) /\ Len(call.arg.rows.items) = 2
  /\ call.arg.rows.items[1] # call.arg.rows.items[2]
  /\ call.arg.columns = Undefined
  /\ ValidToken(call.arg.rowGap)
  /\ call.arg.columnGap = Undefined
  /\ ~Threw(outcome)

GridFields == <<"rows", "columns", "rowGap", "columnGap">>

\* What the validator of one field of the defaulted grid does with it
FieldValidation(grid, f) ==
  LET p == GridParams(grid)
  IN  IF f \in {"rows", "columns"} THEN RowColumnValidator_validate(p[f])
      ELSE GapValidator_validate(p[f])

\* C3: when a field of the grid (after defaulting) is invalid, getGridCss
\* returns no string: it raises the error of the first failing field in the
\* order rows, columns, rowGap, columnGap.
C3_FirstFailingField ==
  Done("getGridCss") =>
    LET failing == {i \in 1..4 : Threw(FieldValidation(call.arg, GridFields[i]))}
    IN  failing # {} =>
          LET first == CHOOSE i \in failing : \A j \in failing : i <= j
          IN  outcome = FieldValidation(call.arg, GridFields[first])

\* C3 witness: getGridCss has raised for a grid whose rows are valid and whose
\* columns and row gap both fail, with different errors.
C3_Witness ==
  /\ Done("getGridCss")
  /\ ~Threw(FieldValidation(call.arg, "rows"))
  /\ Threw(FieldValidation(call.arg, "columns"))
  /\ Threw(FieldValidation(call.arg, "rowGap"))
  /\ FieldValidation(call.arg, "columns") # FieldValidation(call.arg, "rowGap")
  /\ Threw(outcome)

IsNumber(v) == v.t = "number"

IsFinite(v) == v.t = "number" /\ v.kind = "finite"

Supplied(v) == v # Undefined

\* Every field the placement supplies is a number
AllNumbers(positions) ==
  \A f \in PositionFields : Supplied(positions[f]) => IsNumber(positions[f])

\* Every field the placement supplies is a finite number
AllFinite(positions) ==
  \A f \in PositionFields : Supplied(positions[f]) => IsFinite(positions[f])

\* The declaration getPositionCss renders from four values
GridArea(r1, c1, r2, c2) ==
  "{ grid-area: " \o r1 \o " / " \o c1 \o " / " \o r2 \o " / " \o c2 \o "; }"

\* C4 as stated: for a placement whose supplied fields are all numbers,
\* getPositionCss does not raise and returns '' exactly when startRow or
\* startColumn is absent; with both supplied, whatever their value (0
\* included), it returns a declaration.
C4_EmptyIffStartAbsent ==
  (Done("getPositionCss") /\ AllNumbers(call.arg)) =>
    /\ ~Threw(outcome)
    /\ outcome.value.s = "" <=>
         (~Supplied(call.arg.startRow) \/ ~Supplied(call.arg.startColumn))

\* How the code renders one value: `${parseInt(v)}`
Rendered(v) == JSToString(parseInt(v))

\* C5 as stated: in the declaration getPositionCss returns, r1 and c1 are
\* startRow and startColumn, r2 is endRow when endRow is supplied and r1 only
\* when it is absent, c2 is endColumn when endColumn is supplied and c1 only
\* when it is absent (finite inputs).
C5_EndDefaultsOnlyWhenAbsent ==
  (Done("getPositionCss") /\ AllFinite(call.arg) /\ ~Threw(outcome)
     /\ outcome.value.s # "") =>
    LET p == call.arg
    IN  outcome.value.s =
          GridArea(Rendered(p.startRow), Rendered(p.startColumn),
                   IF Supplied(p.endRow) THEN Rendered(p.endRow) ELSE Rendered(p.startRow),
                   IF Supplied(p.endColumn) THEN Rendered(p.endColumn)
                   ELSE Rendered(p.startColumn))

\* The integer part of a finite number (truncation toward zero)
Trunc(x) ==
  IF x.n <= 0 THEN Zero
  ELSE LET int == IF x.n < Len(x.digits) THEN SubSeq(x.digits, 1, x.n) ELSE x.digits
       IN  Fin(x.neg, StripTrailingZeros(int), x.n)

Truncated(v) == NumberToString(Trunc(v))

\* C6 as stated: each of the four values getPositionCss renders is its
\* numeric input truncated toward zero, for every (finite) numeric input; the
\* input of r2 and c2 is the end value, or the start value where the code
\* falls back to it.
C6_RenderedValuesTruncated ==
  (Done("getPositionCss") /\ AllFinite(call.arg) /\ ~Threw(outcome)
     /\ outcome.value.s # "") =>
    LET p == call.arg
    IN  outcome.value.s =
          GridArea(Truncated(p.startRow), Truncated(p.startColumn),
                   Truncated(IF Truthy(p.endRow) THEN p.endRow ELSE p.startRow),
                   Truncated(IF Truthy(p.endColumn) THEN p.endColumn ELSE p.startColumn))

DomOperations ==
  {"setGrid", "setPosition", "setRows", "setColumns", "setRowGap", "setColumnGap"}

\* What the validation of the value argument of a DOM-mutating call does
ValueValidation(c) ==
  CASE c.op = "setGrid" -> GridValidator_validateAllParams(GridParams(c.arg))
    [] c.op = "setPosition" -> GridValidator_validatePositions(c.arg)
    [] c.op \in {"setRows", "setColumns"} -> RowColumnValidator_validate(c.arg)
    [] OTHER -> GapValidator_validate(c.arg)

\* C7: when the validation of the value argument of setGrid, setPosition,
\* setRows, setColumns, setRowGap or setColumnGap raises, the call raises that
\* error and has made no style assignment.
C7_NoWriteOnInvalid ==
  (pc = "returned" /\ call.op \in DomOperations /\ Threw(ValueValidation(call))) =>
    /\ writes = <<>>
    /\ outcome = ValueValidation(call)

\* C7 witness: setGrid has raised on an invalid column gap, for an identifier
\* that matches the element and with valid rows, columns and row gap.
C7_Witness ==
  /\ Done("setGrid")
  /\ querySelector(call.id) = "element"
  /\ ValidTrackList(GridParams(call.arg).rows)
  /\ ValidTrackList(GridParams(call.arg).columns)
  /\ ValidToken(GridParams(call.arg).rowGap)
  /\ ~ValidToken(GridParams(call.arg).columnGap)
  /\ Threw(outcome)

\* C8 as stated: a DOM-mutating operation called with valid value arguments
\* and an element identifier that is not a string raises (here: an error of
\* any type) and makes no style assignment; none returns silently.
C8_NonStringIdentifierRaises ==
  (pc = "returned" /\ call.op \in DomOperations /\ ~Threw(ValueValidation(call))
     /\ typeof(call.id) # "string") =>
    /\ Threw(outcome)
    /\ writes = <<>>

\* setPosition against getPositionCss on the same placement
PositionAgreement ==
  LET g == getPositionCss(call.arg)
      values == {Rendered(call.arg[f]) : f \in {h \in PositionFields : IsNumber(call.arg[h])}}
  IN  /\ Threw(outcome) <=> Threw(g)
      /\ ~Threw(g) => (writes # <<>> <=> g.value.s # "")
      /\ writes # <<>> =>
           \E r1 \in values, c1 \in values, r2 \in values, c2 \in values :
             /\ g.value.s = GridArea(r1, c1, r2, c2)
             /\ writes = << [property |-> "gridRow", value |-> r1 \o " / " \o r2],
                            [property |-> "gridColumn", value |-> c1 \o " / " \o c2] >>

\* C10 as stated: on every placement setPosition raises exactly when
\* getPositionCss raises, writes exactly when getPositionCss returns a
\* declaration, and then writes gridRow = 'r1 / r2' and gridColumn =
\* 'c1 / c2' with the four values of that declaration.
C10_SetPositionAgrees == Done("setPosition") => PositionAgreement

\* C10 as amended: the same, for an element identifier that matches an
\* element of the document.
C10_SetPositionAgreesOnElement ==
  (Done("setPosition") /\ querySelector(call.id) = "element") => PositionAgreement

\* C10 witness: setPosition has written the element for a placement with an
\* end row, no end column and different rows and columns.
C10_Witness ==
  /\ Done("setPosition")
  /\ querySelector(call.id) = "element"
  /\ Truthy(call.arg.endRow)
  /\ call.arg.endColumn = Undefined
  /\ call.arg.startRow # call.arg.startColumn
  /\ Len(writes) = 2

====
